---- MODULE Spec2Model ----
(***************************************************************************)
(* Model of the secure-gps-tracker backend (Express + better-sqlite3).     *)
(*                                                                         *)
(* The four SQLite tables are sequences of rows (a row's id is its index). *)
(* better-sqlite3 is synchronous, so a handler without `await` runs to     *)
(* completion in one step of the Node event loop: /verify-otp, /locations, *)
(* /locations/:email and /permissions/grant are one action each.           *)
(* /request-otp awaits twice (DNS lookup, mail send) and is three steps.   *)
(* Emails are sequences of one-character strings so that the format regex  *)
(* and split("@") are computed, not assumed.  Time is in seconds.          *)
(*                                                                         *)
(* Two specifications share the variables and the clock:                   *)
(*   Spec    - a fresh database; /request-otp, /verify-otp                 *)
(*   SpecLoc - a database with verified users whose tokens are out;        *)
(*             /locations, /locations/:email, /permissions/grant           *)
(* The two sides meet only in the tokens, which the server does not store. *)
(***************************************************************************)
EXTENDS Integers, Sequences, FiniteSets, TLC

\* ---------------------------------------------------------------- bounds
MaxRequests == 2    \* /request-otp calls that reach the DNS lookup
MaxTicks    == 1    \* clock advances
MaxLocs     == 2    \* rows of the locations table
MaxPerms    == 2    \* rows of the permissions table

\* ----------------------------------------------------- program constants
OTP_TTL   == 600        \* OTP_TTL_SECONDS default
TOKEN_TTL == 604800     \* expiresIn: '7d'

\* ------------------------------------------------------------ input sets
S == <<"s", "@", "x", ".", "c">>
V == <<"v", "@", "y", ".", "c">>
Empty == << >>

BadEmails ==
  { <<"s", "@", "x">>,                     \* no dot in the domain
    <<"@", "x", ".", "c">>,                \* empty local part
    <<"s", " ", "@", "x", ".", "c">>,      \* whitespace
    <<"s", "@", "@", "x", ".", "c">>,      \* two @
    <<"s", "@", "x", ".">> }               \* nothing after the dot

EmailInputs  == {S, Empty} \cup BadEmails   \* bodies of /request-otp
VerifyEmails == {S, V, Empty}               \* bodies of /verify-otp

Codes     == {"111111", "222222"}          \* values generateOtp may return
OtpInputs == Codes \cup {""}
RoleInputs == {"viewer", "sharer", ""}

\* ------------------------------------------------------------- variables
VARIABLES
  now,          \* wall clock, seconds
  ticks,        \* number of clock advances so far
  otps,         \* table otps:        [email, code, expiresAt, consumed]
  users,        \* table users:       [email, is_verified, role]
  locations,    \* table locations:   [email, lat, lng, updatedAt]
  permissions,  \* table permissions: [viewer_email, sharer_email, granted]
  reqs,         \* /request-otp handlers that reached the DNS await, in arrival order
  tokens,       \* tokens signed so far
  resp,         \* response sent by the last step (NoResp when it sent none)
  lastOk,       \* per email: last successful verification since the last /request-otp step for it
  meta          \* per otp row: wins = successful verifications decided against it,
                \*              mail = "pending" | "sent" | "failed" (its delivery),
                \*              dns  = what the MX lookup of its request did
                \*              req  = index in reqs of the request that inserted it

vars == <<now, ticks, otps, users, locations, permissions, reqs, tokens, resp, lastOk, meta>>

\* --------------------------------------------------------------- helpers
NoToken == [email |-> Empty, role |-> "", exp |-> 0]
NoLoc   == [email |-> Empty, lat |-> 0, lng |-> 0, updatedAt |-> 0]
NoOk    == [code |-> "", rec |-> 0]

\* a JSON body field as typeof sees it
Num(v) == [t |-> "number", v |-> v]
Undef  == [t |-> "undefined", v |-> 0]
Str(v) == [t |-> "string", v |-> v]
NoBody == [lat |-> Undef, lng |-> Undef]

\* resp: op/status/error are the response; email, otp, role echo the request;
\* user is the verified token payload; rec is the otps row looked up; again/prev
\* say whether the same call had already succeeded (and on which row); hdr is
\* the Authorization header of the request, body its JSON body (POST /locations)
NoResp ==
  [op |-> "", status |-> 0, error |-> "", email |-> Empty, otp |-> "", role |-> "",
   rec |-> 0, again |-> FALSE, prev |-> 0,
   token |-> NoToken, user |-> NoToken, loc |-> NoLoc, dns |-> "", mail |-> "", req |-> 0,
   hdr |-> << >>, body |-> NoBody]

IsSpace(c) == c \in {" ", "\t", "\n"}

\* [^\s@]+ over e[a..b]
ClassRun(e, a, b) == a <= b /\ \A k \in a..b : ~IsSpace(e[k]) /\ e[k] # "@"

\* the regex without the \. : /^[^\s@]+@[^\s@]+$/
isValidEmailFormat_NoDot(email) ==
  \E i \in 1..Len(email) :
    /\ email[i] = "@"
    /\ ClassRun(email, 1, i - 1)
    /\ ClassRun(email, i + 1, Len(email))

\* /^[^\s@]+@[^\s@]+\.[^\s@]+$/.test(email)
isValidEmailFormat(email) ==
  \E i \in 1..Len(email) : \E j \in 1..Len(email) :
    /\ email[i] = "@"
    /\ email[j] = "."
    /\ ClassRun(email, 1, i - 1)
    /\ ClassRun(email, i + 1, j - 1)
    /\ ClassRun(email, j + 1, Len(email))

\* email.split("@")[1]: the text between the first and the second "@"
Ats(email) == {k \in 1..Len(email) : email[k] = "@"}
Min(T) == CHOOSE x \in T : \A y \in T : x <= y
Max(T) == CHOOSE x \in T : \A y \in T : x >= y
SplitAt1(email) ==
  IF Ats(email) = {} THEN Empty
  ELSE LET a    == Min(Ats(email))
           rest == {k \in Ats(email) : k > a}
           b    == IF rest = {} THEN Len(email) + 1 ELSE Min(rest)
       IN  SubSeq(email, a + 1, b - 1)

\* a catch block that returns true
domainHasMX_FailOpen(email, outcome) ==
  IF SplitAt1(email) = Empty THEN FALSE
  ELSE IF outcome = "error" THEN TRUE
  ELSE outcome = "records"

\* domainHasMX(email), given what dns.resolveMx does for the domain:
\* "records" (non-empty answer), "empty" (empty answer), "error" (rejects)
DnsOutcomes == {"records", "empty", "error"}
domainHasMX(email, outcome) ==
  IF SplitAt1(email) = Empty THEN FALSE
  ELSE IF outcome = "error" THEN FALSE
  ELSE outcome = "records"

\* sendOtpEmail: "ok" resolves, "rejected" = info.rejected non-empty (throws),
\* "error" = transporter.sendMail rejects
MailOutcomes == {"ok", "rejected", "error"}
sendOtpEmail(outcome) == outcome = "ok"

\* signToken(user) at time t
signToken(user, t) == [email |-> user.email, role |-> user.role, exp |-> t + TOKEN_TTL]

Ids(table) == 1..Len(table)

Respond(op, status, error) == [NoResp EXCEPT !.op = op, !.status = status, !.error = error]

\* a /request-otp handler that has responded
Done == [email |-> Empty, pc |-> "done", code |-> "", rec |-> 0]

\* the ghost record of an email is cleared by every step of a /request-otp for it
ForgetOk(email) == [e \in DOMAIN lastOk |-> IF e = email THEN NoOk ELSE lastOk[e]]

\* ------------------------------------------------------------------ Init
Init ==
  /\ now = 0
  /\ ticks = 0
  /\ otps = << >>
  /\ users = << >>
  /\ locations = << >>
  /\ permissions = << >>
  /\ reqs = << >>
  /\ tokens = {}
  /\ resp = NoResp
  /\ lastOk = [e \in {S, V} |-> NoOk]
  /\ meta = << >>

\* ------------------------------------------------------ POST /request-otp
\* up to the first await: the two synchronous checks
RequestOtp(email) ==
  /\ IF email = Empty
       THEN /\ resp' = [Respond("request-otp", 400, "email_required") EXCEPT !.email = email]
            /\ UNCHANGED <<reqs, lastOk>>
     ELSE IF ~isValidEmailFormat(email)
       THEN /\ resp' = [Respond("request-otp", 400, "invalid_email_format") EXCEPT !.email = email]
            /\ UNCHANGED <<reqs, lastOk>>
     ELSE /\ Len(reqs) < MaxRequests
          /\ reqs' = Append(reqs, [email |-> email, pc |-> "dns", code |-> "", rec |-> 0])
          /\ lastOk' = ForgetOk(email)
          /\ resp' = NoResp
  /\ UNCHANGED <<now, ticks, otps, users, locations, permissions, tokens, meta>>

\* INSERT INTO otps (email, code, expiresAt) VALUES (?, ?, ?)
InsertOtp(table, email, code, t) ==
  Append(table, [email |-> email, code |-> code, expiresAt |-> t + OTP_TTL, consumed |-> 0])

\* the DNS lookup of request i settles; on success the handler runs on to the mail await
DnsReply(i, outcome) ==
  /\ i \in Ids(reqs)
  /\ reqs[i].pc = "dns"
  /\ lastOk' = ForgetOk(reqs[i].email)
  /\ IF ~domainHasMX(reqs[i].email, outcome)
       THEN /\ resp' = [Respond("request-otp", 400, "invalid_email_domain")
                          EXCEPT !.email = reqs[i].email, !.dns = outcome, !.req = i]
            /\ reqs' = [reqs EXCEPT ![i] = Done]
            /\ UNCHANGED <<otps, meta>>
       ELSE \E code \in Codes :      \* generateOtp()
            /\ otps' = InsertOtp(otps, reqs[i].email, code, now)
            /\ meta' = Append(meta, [wins |-> 0, mail |-> "pending", dns |-> outcome, req |-> i])
            /\ reqs' = [reqs EXCEPT ![i].pc = "mail", ![i].code = code, ![i].rec = Len(otps) + 1]
            /\ resp' = NoResp
  /\ UNCHANGED <<now, ticks, users, locations, permissions, tokens>>

\* a catch block that burns the row it could not deliver
AfterMailFailure_Burn(table, id) == [table EXCEPT ![id].consumed = 1]

\* what a failed delivery does to the otps table: nothing
AfterMailFailure(table, id) == table

\* the handler without the try/catch around the send: the rejection leaves the
\* async handler and no response is written
MailReply_NoCatch(i, outcome) ==
  /\ i \in Ids(reqs)
  /\ reqs[i].pc = "mail"
  /\ lastOk' = ForgetOk(reqs[i].email)
  /\ reqs' = [reqs EXCEPT ![i] = Done]
  /\ IF sendOtpEmail(outcome)
       THEN /\ resp' = [Respond("request-otp", 200, "")
                          EXCEPT !.email = reqs[i].email, !.mail = outcome, !.req = i, !.rec = reqs[i].rec]
            /\ meta' = [meta EXCEPT ![reqs[i].rec].mail = "sent"]
            /\ otps' = otps
       ELSE /\ resp' = NoResp
            /\ meta' = [meta EXCEPT ![reqs[i].rec].mail = "failed"]
            /\ otps' = AfterMailFailure(otps, reqs[i].rec)
  /\ UNCHANGED <<now, ticks, users, locations, permissions, tokens>>

\* the mail send of request i settles
MailReply(i, outcome) ==
  /\ i \in Ids(reqs)
  /\ reqs[i].pc = "mail"
  /\ lastOk' = ForgetOk(reqs[i].email)
  /\ reqs' = [reqs EXCEPT ![i] = Done]
  /\ IF sendOtpEmail(outcome)
       THEN /\ resp' = [Respond("request-otp", 200, "")
                          EXCEPT !.email = reqs[i].email, !.mail = outcome, !.req = i, !.rec = reqs[i].rec]
            /\ meta' = [meta EXCEPT ![reqs[i].rec].mail = "sent"]
            /\ otps' = otps
       ELSE /\ resp' = [Respond("request-otp", 500, "email_failed")
                          EXCEPT !.email = reqs[i].email, !.mail = outcome, !.req = i, !.rec = reqs[i].rec]
            /\ meta' = [meta EXCEPT ![reqs[i].rec].mail = "failed"]
            /\ otps' = AfterMailFailure(otps, reqs[i].rec)
  /\ UNCHANGED <<now, ticks, users, locations, permissions, tokens>>

\* ------------------------------------------------------- POST /verify-otp
\* the SELECT without "AND consumed = 0"
SelectOtp_IgnoreConsumed(table, email) ==
  LET m == {i \in Ids(table) : table[i].email = email}
  IN  IF m = {} THEN 0 ELSE Max(m)

\* the SELECT with ORDER BY id ASC
SelectOtp_Oldest(table, email) ==
  LET m == {i \in Ids(table) : table[i].email = email /\ table[i].consumed = 0}
  IN  IF m = {} THEN 0 ELSE Min(m)

\* SELECT * FROM otps WHERE email = ? AND consumed = 0 ORDER BY id DESC LIMIT 1
SelectOtp(table, email) ==
  LET m == {i \in Ids(table) : table[i].email = email /\ table[i].consumed = 0}
  IN  IF m = {} THEN 0 ELSE Max(m)

\* the comparison with >= in place of >
Expired_AtOrAfter(t, record) == t >= record.expiresAt

\* new Date() > new Date(record.expiresAt)
Expired(t, record) == t > record.expiresAt

\* UPDATE otps SET consumed = 1, code = '' WHERE id = ?
ConsumeOtp_Rewrite(table, id) == [table EXCEPT ![id].consumed = 1, ![id].code = ""]

\* the handler without its UPDATE
ConsumeOtp_Noop(table, id) == table

\* UPDATE otps SET consumed = 1 WHERE id = ?
ConsumeOtp(table, id) == [table EXCEPT ![id].consumed = 1]

\* SELECT * FROM users WHERE email = ?
SelectUser(table, email) ==
  LET m == {i \in Ids(table) : table[i].email = email}
  IN  IF m = {} THEN 0 ELSE Min(m)

finalRole(role) == IF role = "viewer" THEN "viewer" ELSE "sharer"

\* the role UPDATE without its "if (!user.role)" guard
UpsertUser_Overwrite(table, email, role) ==
  LET u == SelectUser(table, email)
  IN  IF u = 0
        THEN Append(table, [email |-> email, is_verified |-> 1, role |-> finalRole(role)])
        ELSE [table EXCEPT ![u].is_verified = 1, ![u].role = finalRole(role)]

\* the INSERT with is_verified left at its column default 0, and no UPDATE after it
UpsertUser_Unverified(table, email, role) ==
  LET u == SelectUser(table, email)
  IN  IF u = 0
        THEN Append(table, [email |-> email, is_verified |-> 0, role |-> finalRole(role)])
        ELSE table

\* the users table after the look-up-or-create of a successful verification
UpsertUser(table, email, role) ==
  LET u == SelectUser(table, email)
  IN  IF u = 0
        THEN Append(table, [email |-> email, is_verified |-> 1, role |-> finalRole(role)])
        ELSE LET t1 == IF table[u].is_verified = 0
                         THEN [table EXCEPT ![u].is_verified = 1] ELSE table
             IN  IF t1[u].role = ""
                   THEN [t1 EXCEPT ![u].role = finalRole(role)] ELSE t1

\* an invalid_otp branch that burns the row it compared against
AfterWrongCode_Burn(table, id) == [table EXCEPT ![id].consumed = 1]

\* what a wrong code does to the otps table: nothing, the handler returns 401
AfterWrongCode(table, id) == table

VerifyOtp(email, otp, role) ==
  LET rec  == SelectOtp(otps, email)
      prior == IF email \in DOMAIN lastOk THEN lastOk[email] ELSE NoOk
      base == [NoResp EXCEPT !.op = "verify-otp", !.email = email, !.otp = otp,
                             !.again = (otp # "" /\ prior.code = otp), !.prev = prior.rec]
      fail(status, error) ==
        /\ resp' = [base EXCEPT !.status = status, !.error = error, !.rec = rec]
        /\ UNCHANGED <<otps, users, tokens, lastOk, meta>>
  IN
  /\ IF email = Empty \/ otp = ""
       THEN /\ resp' = [base EXCEPT !.status = 400, !.error = "email_and_otp_required"]
            /\ UNCHANGED <<otps, users, tokens, lastOk, meta>>
     ELSE IF rec = 0 THEN fail(400, "no_otp_requested")
     ELSE IF Expired(now, otps[rec]) THEN fail(400, "otp_expired")
     ELSE IF otp # otps[rec].code
       THEN /\ resp' = [base EXCEPT !.status = 401, !.error = "invalid_otp", !.rec = rec]
            /\ otps' = AfterWrongCode(otps, rec)
            /\ UNCHANGED <<users, tokens, lastOk, meta>>
     ELSE LET users2 == UpsertUser(users, email, role)
              user   == users2[SelectUser(users2, email)]
              token  == signToken(user, now)
          IN  /\ otps' = ConsumeOtp(otps, rec)
              /\ users' = users2
              /\ tokens' = tokens \cup {token}
              /\ meta' = [meta EXCEPT ![rec].wins = @ + 1]
              /\ lastOk' = [lastOk EXCEPT ![email] = [code |-> otp, rec |-> rec]]
              /\ resp' = [base EXCEPT !.status = 200, !.rec = rec, !.token = token, !.role = role,
                                      !.user = [email |-> email, role |-> user.role, exp |-> 0]]
  /\ UNCHANGED <<now, ticks, locations, permissions, reqs>>

\* -------------------------------------------------------- authMiddleware
\* An Authorization header is the sequence of its space-separated words.
\* A word is plain text or a JWT (payload, and whether JWT_SECRET signed it).
W(text) == [text |-> text, payload |-> NoToken, signed |-> FALSE]
Jwt(t, signed) == [text |-> "jwt", payload |-> t, signed |-> signed]

Forged == { [email |-> V, role |-> "viewer", exp |-> 10 * TOKEN_TTL],
            [email |-> V, role |-> "sharer", exp |-> 10 * TOKEN_TTL] }

Headers ==
  { << >>, <<W("Bearer"), W("")>>, <<W("Bearer"), W("garbage")>> }
  \cup { <<W("Bearer"), Jwt(t, TRUE)>> : t \in tokens }
  \cup { <<W("Token"), Jwt(t, TRUE)>> : t \in tokens }
  \cup { <<W("Bearer"), Jwt(t, FALSE)>> : t \in Forged }

\* jwt.decode in place of jwt.verify: the signature is not checked
jwtVerify_Unsigned(word, t) == word.text = "jwt" /\ t < word.payload.exp

\* jwt.verify(token, JWT_SECRET): signature, then exp against the clock
jwtVerify(word, t) == word.text = "jwt" /\ word.signed /\ t < word.payload.exp

authMiddleware(header, t) ==
  IF Len(header) < 2 \/ header[2].text = ""
    THEN [ok |-> FALSE, error |-> "missing_token", user |-> NoToken]
  ELSE IF jwtVerify(header[2], t)
    THEN [ok |-> TRUE, error |-> "", user |-> header[2].payload]
  ELSE [ok |-> FALSE, error |-> "invalid_token", user |-> NoToken]

\* ------------------------------------------------------- POST /locations
Bodies ==
  { [lat |-> Num(10), lng |-> Num(20)],
    [lat |-> Num(300), lng |-> Num(400)],     \* outside -90..90 / -180..180
    [lat |-> Undef,   lng |-> Num(20)],
    [lat |-> Num(10), lng |-> Str(20)] }

\* INSERT INTO locations (email, lat, lng) VALUES (?, ?, ?); updatedAt = CURRENT_TIMESTAMP
InsertLocation(table, email, lat, lng, t) ==
  Append(table, [email |-> email, lat |-> lat, lng |-> lng, updatedAt |-> t])

\* the handler without its role check
PostLocation_AnyRole(header, body) ==
  LET auth == authMiddleware(header, now)
      base == [NoResp EXCEPT !.op = "post-location", !.user = auth.user, !.hdr = header,
                             !.body = body]
  IN
  /\ IF ~auth.ok
       THEN /\ resp' = [NoResp EXCEPT !.op = "post-location", !.hdr = header,
                                    !.status = 401, !.error = auth.error]
            /\ UNCHANGED locations
     ELSE IF body.lat.t # "number" \/ body.lng.t # "number"
       THEN /\ resp' = [base EXCEPT !.status = 400, !.error = "lat_and_lng_required"]
            /\ UNCHANGED locations
     ELSE /\ Len(locations) < MaxLocs
          /\ locations' = InsertLocation(locations, auth.user.email, body.lat.v, body.lng.v, now)
          /\ resp' = [base EXCEPT !.status = 200]
  /\ UNCHANGED <<now, ticks, otps, users, permissions, reqs, tokens, lastOk, meta>>

PostLocation(header, body) ==
  LET auth == authMiddleware(header, now)
      base == [NoResp EXCEPT !.op = "post-location", !.user = auth.user, !.hdr = header,
                             !.body = body]
  IN
  /\ IF ~auth.ok
       THEN /\ resp' = [NoResp EXCEPT !.op = "post-location", !.hdr = header,
                                    !.status = 401, !.error = auth.error]
            /\ UNCHANGED locations
     ELSE IF auth.user.role # "sharer"
       THEN /\ resp' = [base EXCEPT !.status = 403, !.error = "only_sharers_can_post"]
            /\ UNCHANGED locations
     ELSE IF body.lat.t # "number" \/ body.lng.t # "number"
       THEN /\ resp' = [base EXCEPT !.status = 400, !.error = "lat_and_lng_required"]
            /\ UNCHANGED locations
     ELSE /\ Len(locations) < MaxLocs
          /\ locations' = InsertLocation(locations, auth.user.email, body.lat.v, body.lng.v, now)
          /\ resp' = [base EXCEPT !.status = 200]
  /\ UNCHANGED <<now, ticks, otps, users, permissions, reqs, tokens, lastOk, meta>>

\* -------------------------------------------------- GET /locations/:email
\* the SELECT without "AND sharer_email = ?"
SelectPerm_AnySharer(table, viewer, sharer) ==
  \E i \in Ids(table) : table[i].viewer_email = viewer /\ table[i].granted = 1

\* SELECT 1 FROM permissions WHERE viewer_email = ? AND sharer_email = ? AND granted = 1
SelectPerm(table, viewer, sharer) ==
  \E i \in Ids(table) :
    table[i].viewer_email = viewer /\ table[i].sharer_email = sharer /\ table[i].granted = 1

\* the SELECT with ORDER BY updatedAt ASC, id ASC
SelectLocation_Oldest(table, email) ==
  LET m == {i \in Ids(table) : table[i].email = email}
  IN  IF m = {} THEN 0
      ELSE CHOOSE i \in m : \A j \in m :
             \/ table[j].updatedAt > table[i].updatedAt
             \/ table[j].updatedAt = table[i].updatedAt /\ j >= i

\* SELECT ... FROM locations WHERE email = ? ORDER BY updatedAt DESC, id DESC LIMIT 1
SelectLocation(table, email) ==
  LET m == {i \in Ids(table) : table[i].email = email}
  IN  IF m = {} THEN 0
      ELSE CHOOSE i \in m : \A j \in m :
             \/ table[j].updatedAt < table[i].updatedAt
             \/ table[j].updatedAt = table[i].updatedAt /\ j <= i

\* the handler with the location lookup answered before the permission check
GetLocation_LocFirst(header, sharerEmail) ==
  LET auth == authMiddleware(header, now)
      base == [NoResp EXCEPT !.op = "get-location", !.user = auth.user, !.email = sharerEmail,
                             !.hdr = header]
      loc  == SelectLocation(locations, sharerEmail)
  IN
  /\ resp' = IF ~auth.ok
               THEN [NoResp EXCEPT !.op = "get-location", !.hdr = header,
                                    !.status = 401, !.error = auth.error]
             ELSE IF auth.user.role # "viewer"
               THEN [base EXCEPT !.status = 403, !.error = "only_viewers_can_fetch"]
             ELSE IF loc = 0
               THEN [base EXCEPT !.status = 404, !.error = "no_location_found"]
             ELSE IF ~SelectPerm(permissions, auth.user.email, sharerEmail)
               THEN [base EXCEPT !.status = 403, !.error = "no_permission"]
             ELSE [base EXCEPT !.status = 200, !.loc = locations[loc]]
  /\ UNCHANGED <<now, ticks, otps, users, locations, permissions, reqs, tokens, lastOk, meta>>

GetLocation(header, sharerEmail) ==
  LET auth == authMiddleware(header, now)
      base == [NoResp EXCEPT !.op = "get-location", !.user = auth.user, !.email = sharerEmail,
                             !.hdr = header]
      loc  == SelectLocation(locations, sharerEmail)
  IN
  /\ resp' = IF ~auth.ok
               THEN [NoResp EXCEPT !.op = "get-location", !.hdr = header,
                                    !.status = 401, !.error = auth.error]
             ELSE IF auth.user.role # "viewer"
               THEN [base EXCEPT !.status = 403, !.error = "only_viewers_can_fetch"]
             ELSE IF ~SelectPerm(permissions, auth.user.email, sharerEmail)
               THEN [base EXCEPT !.status = 403, !.error = "no_permission"]
             ELSE IF loc = 0
               THEN [base EXCEPT !.status = 404, !.error = "no_location_found"]
             ELSE [base EXCEPT !.status = 200, !.loc = locations[loc]]
  /\ UNCHANGED <<now, ticks, otps, users, locations, permissions, reqs, tokens, lastOk, meta>>

\* ------------------------------------------------ POST /permissions/grant
\* the INSERT without its ON CONFLICT clause (and no UNIQUE constraint to stop it)
UpsertPerm_Insert(table, viewer, sharer) ==
  Append(table, [viewer_email |-> viewer, sharer_email |-> sharer, granted |-> 1])

\* the upsert with DO UPDATE SET granted = 1 - granted
UpsertPerm_Toggle(table, viewer, sharer) ==
  LET m == {i \in Ids(table) : table[i].viewer_email = viewer /\ table[i].sharer_email = sharer}
  IN  IF m = {}
        THEN Append(table, [viewer_email |-> viewer, sharer_email |-> sharer, granted |-> 1])
        ELSE [i \in Ids(table) |->
                IF i \in m THEN [table[i] EXCEPT !.granted = 1 - table[i].granted] ELSE table[i]]

\* INSERT INTO permissions ... ON CONFLICT(viewer_email, sharer_email) DO UPDATE SET granted = 1
UpsertPerm(table, viewer, sharer) ==
  LET m == {i \in Ids(table) : table[i].viewer_email = viewer /\ table[i].sharer_email = sharer}
  IN  IF m = {}
        THEN Append(table, [viewer_email |-> viewer, sharer_email |-> sharer, granted |-> 1])
        ELSE [i \in Ids(table) |-> IF i \in m THEN [table[i] EXCEPT !.granted = 1] ELSE table[i]]

GrantPermission(header, viewerEmail) ==
  LET auth == authMiddleware(header, now)
      base == [NoResp EXCEPT !.op = "grant", !.user = auth.user, !.email = viewerEmail,
                             !.hdr = header,
                             !.again = \E i \in Ids(permissions) :
                                          /\ permissions[i].viewer_email = viewerEmail
                                          /\ permissions[i].sharer_email = auth.user.email]
  IN
  /\ IF ~auth.ok
       THEN /\ resp' = [NoResp EXCEPT !.op = "grant", !.hdr = header,
                                    !.status = 401, !.error = auth.error]
            /\ UNCHANGED permissions
     ELSE IF auth.user.role # "sharer"
       THEN /\ resp' = [base EXCEPT !.status = 403, !.error = "only_sharers_can_grant"]
            /\ UNCHANGED permissions
     ELSE IF viewerEmail = Empty
       THEN /\ resp' = [base EXCEPT !.status = 400, !.error = "viewer_email_required"]
            /\ UNCHANGED permissions
     ELSE /\ permissions' = UpsertPerm(permissions, viewerEmail, auth.user.email)
          /\ Len(permissions') <= MaxPerms
          /\ resp' = [base EXCEPT !.status = 200]
  /\ UNCHANGED <<now, ticks, otps, users, locations, reqs, tokens, lastOk, meta>>

\* ----------------------------------------------------------------- clock
OtpTickSteps == {OTP_TTL, OTP_TTL + 1}
LocTickSteps == {1, TOKEN_TTL}

Tick(d) ==
  /\ ticks < MaxTicks
  /\ now' = now + d
  /\ ticks' = ticks + 1
  /\ resp' = NoResp
  /\ UNCHANGED <<otps, users, locations, permissions, reqs, tokens, lastOk, meta>>

\* ------------------------------------------------------------------ Next
\* The OTP side: a fresh database, the /request-otp and /verify-otp handlers, the clock.
Next ==
  \/ \E email \in EmailInputs : RequestOtp(email)
  \/ \E i \in 1..MaxRequests + 1 : \E o \in DnsOutcomes : DnsReply(i, o)
  \/ \E i \in 1..MaxRequests + 1 : \E o \in MailOutcomes : MailReply(i, o)
  \/ \E email \in VerifyEmails : \E otp \in OtpInputs : \E role \in RoleInputs :
       VerifyOtp(email, otp, role)
  \/ \E d \in OtpTickSteps : Tick(d)

Spec == Init /\ [][Next]_vars

\* The location side: the server is started over the database file left by earlier
\* runs (CREATE TABLE IF NOT EXISTS keeps its rows): any set of users verified at
\* time 0, each holding the token signed at its verification.
UserTables ==
  { << >> }
  \cup { <<[email |-> e, is_verified |-> 1, role |-> r]>> : e \in {S, V}, r \in {"sharer", "viewer"} }
  \cup { <<[email |-> S, is_verified |-> 1, role |-> r1], [email |-> V, is_verified |-> 1, role |-> r2]>> :
            r1 \in {"sharer", "viewer"}, r2 \in {"sharer", "viewer"} }

InitLoc ==
  /\ now = 0
  /\ ticks = 0
  /\ otps = << >>
  /\ users \in UserTables
  /\ locations = << >>
  /\ permissions = << >>
  /\ reqs = << >>
  /\ tokens = {signToken(users[i], 0) : i \in Ids(users)}
  /\ resp = NoResp
  /\ lastOk = [e \in {S, V} |-> NoOk]
  /\ meta = << >>

NextLoc ==
  \/ \E h \in Headers : \E body \in Bodies : PostLocation(h, body)
  \/ \E h \in Headers : \E e \in {S, V} : GetLocation(h, e)
  \/ \E h \in Headers : \E e \in {S, V, Empty} : GrantPermission(h, e)
  \/ \E d \in LocTickSteps : Tick(d)

SpecLoc == InitLoc /\ [][NextLoc]_vars

\* Both sides over one fresh database, on fewer inputs: mailbox S asks for codes and
\* verifies as a sharer, and the tokens signed on the way are presented,
\* with the Bearer scheme, to the three gated handlers.
BearerHeaders == { <<W("Bearer"), Jwt(t, TRUE)>> : t \in tokens }

NextStore ==
  \/ RequestOtp(S)
  \/ \E i \in 1..MaxRequests : DnsReply(i, "records")
  \/ \E i \in 1..MaxRequests : MailReply(i, "ok")
  \/ \E otp \in Codes : VerifyOtp(S, otp, "sharer")
  \/ \E h \in BearerHeaders : \E body \in Bodies : PostLocation(h, body)
  \/ \E h \in BearerHeaders : GetLocation(h, S)
  \/ \E h \in BearerHeaders : GrantPermission(h, S)
  \/ \E d \in OtpTickSteps : Tick(d)

SpecStore == Init /\ [][NextStore]_vars

\* The OTP side again, with the scheduling the runtime gives: a lookup or a send in
\* flight settles (the resolver and the SMTP client reject on their own timers, which
\* is the outcome "error"), and the continuation of a settled await is run.
NextLive ==
  \/ \E email \in {S, Empty, <<"s", "@", "x">>} : RequestOtp(email)
  \/ \E i \in 1..MaxRequests : \E o \in DnsOutcomes : DnsReply(i, o)
  \/ \E i \in 1..MaxRequests : \E o \in MailOutcomes : MailReply(i, o)
  \/ \E otp \in OtpInputs : VerifyOtp(S, otp, "sharer")
  \/ \E d \in OtpTickSteps : Tick(d)

SpecLive ==
  /\ Init /\ [][NextLive]_vars
  /\ \A i \in 1..MaxRequests :
       /\ WF_vars(\E o \in DnsOutcomes : DnsReply(i, o))
       /\ WF_vars(\E o \in MailOutcomes : MailReply(i, o))

\* ================================================================ claims
RowsOf(table, email) == {i \in Ids(table) : table[i].email = email}
VerifyOk     == resp.op = "verify-otp" /\ resp.status = 200
VerifyOkNext == resp'.op = "verify-otp" /\ resp'.status = 200

C2_OneWinPerRow ==
  /\ Len(meta) = Len(otps)
  /\ \A i \in Ids(otps) :
       /\ meta[i].wins <= 1
       /\ (meta[i].wins = 1) <=> (otps[i].consumed = 1)
  /\ Cardinality(tokens) <= Cardinality({i \in Ids(otps) : otps[i].consumed = 1})

C2_Witness ==
  /\ \E i \in Ids(reqs) : reqs[i].pc = "mail"
  /\ resp.op = "verify-otp" /\ resp.status # 200 /\ resp.rec = 0
  /\ \E i \in Ids(otps) :
       meta[i].wins = 1 /\ otps[i].email = resp.email /\ otps[i].code = resp.otp

\* ---- C4: a VerifyOtp that finds a row whose expiry has passed answers otp_expired
\* whatever the code, and leaves the row unconsumed; at or before the expiry instant
\* the row's own code is accepted.
C4_ExpiryDecides ==
  (resp.op = "verify-otp" /\ resp.rec # 0) =>
    IF now > otps[resp.rec].expiresAt
      THEN resp.status = 400 /\ resp.error = "otp_expired" /\ otps[resp.rec].consumed = 0
      ELSE resp.otp = otps[resp.rec].code => (resp.status = 200 /\ otps[resp.rec].consumed = 1)

C4_Witness ==
  /\ resp.op = "verify-otp" /\ resp.error = "otp_expired"
  /\ resp.otp = otps[resp.rec].code
  /\ now = otps[resp.rec].expiresAt + 1

\* ---- C5: the first successful VerifyOtp of an email creates its user with role
\* viewer if the requested role is 'viewer' and sharer otherwise; no step changes the
\* role of an existing user; every successful VerifyOtp returns the stored role, in
\* the token and in the body.
C5_RoleImmutable ==
  [][ /\ \A i \in Ids(users) :
           /\ i \in Ids(users')
           /\ users'[i].email = users[i].email
           /\ users'[i].role = users[i].role
      /\ Len(users') > Len(users) =>
           /\ Len(users') = Len(users) + 1
           /\ VerifyOkNext
           /\ RowsOf(users, resp'.email) = {}
           /\ users'[Len(users')].email = resp'.email
           /\ users'[Len(users')].role = (IF resp'.role = "viewer" THEN "viewer" ELSE "sharer")
      /\ VerifyOkNext =>
           /\ Cardinality(RowsOf(users', resp'.email)) = 1
           /\ \A i \in RowsOf(users', resp'.email) :
                /\ users'[i].is_verified = 1
                /\ resp'.token.role = users'[i].role
                /\ resp'.user.role = users'[i].role
                /\ resp'.token.email = resp'.email
    ]_vars

C5_Witness ==
  /\ VerifyOk /\ resp.role = "sharer"
  /\ resp.token.role = "viewer"
  /\ \E i \in Ids(users) : users[i].email = resp.email /\ users[i].role = "viewer"

\* ---- C8 (as stated): every email that fails the shape check gets invalid_email_format.
C8_EveryIllShapedEmailIsInvalidFormat ==
  (resp.op = "request-otp" /\ resp.email \in BadEmails \cup {Empty}) =>
    resp.error = "invalid_email_format"

\* ---- C8 (amended): every NON-EMPTY email that fails the shape check gets
\* invalid_email_format (the empty one gets email_required); either way the handler
\* stops there: no otps row, no DNS lookup, no mail.
C8_IllShapedEmailShortCircuits ==
  /\ [](/\ \A e \in BadEmails \cup {Empty} : ~isValidEmailFormat(e)
        /\ \A i \in Ids(otps) : otps[i].email \notin BadEmails \cup {Empty}
        /\ \A i \in Ids(reqs) : reqs[i].email \notin BadEmails)
  /\ [][ (resp'.op = "request-otp" /\ resp'.email \in BadEmails \cup {Empty}) =>
           /\ resp'.status = 400
           /\ resp'.error = (IF resp'.email = Empty THEN "email_required"
                                                   ELSE "invalid_email_format")
           /\ UNCHANGED <<otps, meta, reqs, users, tokens>>
       ]_vars

C8_Witness ==
  /\ resp.op = "request-otp" /\ resp.error = "invalid_email_format"
  /\ resp.email = <<"s", "@", "x">>
  /\ \E i \in Ids(reqs) : reqs[i].pc = "dns"

\* ---- C9: when the MX lookup of a well-formed email answers with no record, or
\* fails, RequestOtp answers 400 invalid_email_domain, inserts no otps row and sends
\* no mail; only a non-empty answer lets a row in.
C9_NoMxFailsClosed ==
  /\ [](\A i \in Ids(otps) : meta[i].dns = "records" /\ isValidEmailFormat(otps[i].email))
  /\ [][ \A i \in Ids(reqs) : \A o \in {"empty", "error"} :
           (reqs[i].pc = "dns" /\ reqs'[i].pc # "dns" /\ resp'.dns = o) =>
             /\ resp'.op = "request-otp" /\ resp'.req = i
             /\ resp'.status = 400 /\ resp'.error = "invalid_email_domain"
             /\ reqs'[i].pc = "done"
             /\ UNCHANGED <<otps, meta, users, tokens>>
       ]_vars

C9_Witness ==
  /\ resp.op = "request-otp" /\ resp.error = "invalid_email_domain" /\ resp.dns = "error"
  /\ reqs[resp.req].pc = "done"

\* ---- C10: a failed delivery answers 500 email_failed and leaves the otps table as
\* it is; while the row of that request is the latest of its email, unconsumed and
\* not past its expiry, a VerifyOtp with its code succeeds and consumes it.
C10_UndeliveredRowStaysUsable ==
  [][ /\ \A i \in Ids(reqs) :
           (reqs[i].pc = "mail" /\ reqs'[i].pc # "mail" /\ resp'.mail # "ok") =>
             /\ resp'.op = "request-otp" /\ resp'.req = i
             /\ resp'.status = 500 /\ resp'.error = "email_failed"
             /\ otps' = otps
             /\ meta'[reqs[i].rec].mail = "failed"
      /\ \A r \in Ids(otps) :
           ( /\ resp'.op = "verify-otp" /\ resp'.email = otps[r].email
             /\ resp'.otp = otps[r].code
             /\ meta[r].mail = "failed"
             /\ r = Max(RowsOf(otps, otps[r].email))
             /\ otps[r].consumed = 0
             /\ now <= otps[r].expiresAt ) =>
             /\ resp'.status = 200 /\ resp'.rec = r
             /\ otps'[r].consumed = 1
    ]_vars

C10_Witness ==
  /\ VerifyOk
  /\ meta[resp.rec].mail = "failed"
  /\ now = otps[resp.rec].expiresAt

\* ---- C3: GetLocation answers with a location only if a permissions row
\* (viewer = the token's email, sharer = the requested email, granted = 1) exists;
\* a viewer without such a row gets no_permission, also when the sharer has locations.
HasGrant(viewer, sharer) ==
  \E i \in Ids(permissions) :
    permissions[i] = [viewer_email |-> viewer, sharer_email |-> sharer, granted |-> 1]

C3_ReadNeedsGrant ==
  resp.op = "get-location" =>
    /\ resp.status = 200 => (resp.user.role = "viewer" /\ HasGrant(resp.user.email, resp.email))
    /\ (resp.user.role = "viewer" /\ ~HasGrant(resp.user.email, resp.email)) =>
         (resp.status = 403 /\ resp.error = "no_permission" /\ resp.loc = NoLoc)

C3_Witness ==
  /\ resp.op = "get-location" /\ resp.error = "no_permission"
  /\ RowsOf(locations, resp.email) # {}
  /\ permissions # << >>

\* ---- C6: a successful GetLocation returns the row posted last for that sharer.
C6_LatestWins ==
  /\ \A i \in Ids(locations) : \A j \in Ids(locations) :
       i <= j => locations[i].updatedAt <= locations[j].updatedAt
  /\ (resp.op = "get-location" /\ resp.status = 200) =>
       /\ RowsOf(locations, resp.email) # {}
       /\ resp.loc = locations[Max(RowsOf(locations, resp.email))]

C6_Witness ==
  /\ resp.op = "get-location" /\ resp.status = 200
  /\ \E i \in RowsOf(locations, resp.email) :
       /\ i < Max(RowsOf(locations, resp.email))
       /\ locations[i].lat # resp.loc.lat
       /\ locations[i].updatedAt < resp.loc.updatedAt

\* ---- C7: the permissions table never holds two rows for one (viewer, sharer) pair;
\* after a successful GrantPermission it holds exactly one, with granted = 1; a grant
\* of a pair that already has its row leaves the table as it was.
PermRows(table, viewer, sharer) ==
  {i \in Ids(table) : table[i].viewer_email = viewer /\ table[i].sharer_email = sharer}

C7_GrantIdempotent ==
  /\ [](/\ \A i \in Ids(permissions) : \A j \in Ids(permissions) :
             ( /\ permissions[i].viewer_email = permissions[j].viewer_email
               /\ permissions[i].sharer_email = permissions[j].sharer_email ) => i = j
        /\ (resp.op = "grant" /\ resp.status = 200) =>
             /\ Cardinality(PermRows(permissions, resp.email, resp.user.email)) = 1
             /\ HasGrant(resp.email, resp.user.email))
  /\ [][ (resp'.op = "grant" /\ resp'.status = 200
          /\ PermRows(permissions, resp'.email, resp'.user.email) # {}) =>
           permissions' = permissions
       ]_vars

C7_Witness ==
  /\ resp.op = "grant" /\ resp.status = 200 /\ resp.again
  /\ Len(permissions) = 1

\* ---- C11: on /locations, /locations/:email and /permissions/grant a request without
\* a well-formed bearer credential ("Bearer" and a non-empty token) gets 401
\* missing_token, and one whose credential fails the signature or expiry check gets
\* 401 invalid_token.
GatedOps == {"post-location", "get-location", "grant"}
WellFormedBearer(h) == Len(h) = 2 /\ h[1].text = "Bearer" /\ h[2].text # ""
CredentialHolds(h, t) == h[2].text = "jwt" /\ h[2].signed /\ t < h[2].payload.exp

C11_TokenGate ==
  resp.op \in GatedOps =>
    IF ~WellFormedBearer(resp.hdr)
      THEN resp.status = 401 /\ resp.error = "missing_token"
    ELSE ~CredentialHolds(resp.hdr, now) =>
           (resp.status = 401 /\ resp.error = "invalid_token")

\* ---- C12: every token signed so far carries the email and the role of a users row
\* that is verified; users rows and tokens appear only in a successful VerifyOtp,
\* which signs its token from the row it has just written or re-read.
C12_TokensMatchUsers ==
  /\ [](/\ \A t \in tokens : \E i \in Ids(users) :
             /\ users[i].email = t.email
             /\ users[i].role = t.role
             /\ users[i].is_verified = 1
        /\ \A i \in Ids(users) :
             /\ users[i].role \in {"sharer", "viewer"}
             /\ RowsOf(users, users[i].email) = {i})
  /\ [][ /\ users' # users => VerifyOkNext
         /\ tokens' # tokens =>
              /\ VerifyOkNext
              /\ tokens' = tokens \cup {resp'.token}
              /\ resp'.token.exp = now + TOKEN_TTL
       ]_vars

C12_Witness ==
  /\ VerifyOk
  /\ \E t \in tokens :
       /\ t # resp.token
       /\ t.email = resp.token.email
       /\ t.role = resp.token.role
       /\ resp.role # "" /\ resp.role # t.role

\* ---- C13 (as stated): once a later OTP has been issued for an email, no VerifyOtp
\* for it succeeds by matching the different code of an earlier, superseded row.
LatestRow(email) == Max(RowsOf(otps, email))

C13_SupersededNeverMatches ==
  VerifyOk => (resp.rec = LatestRow(resp.email) \/ otps[LatestRow(resp.email)].code = resp.otp)

\* ---- C13 (amended): VerifyOtp is decided against the latest UNCONSUMED row of the
\* email: while a later row is unconsumed no earlier row is matched or consumed; once
\* every later row is consumed, the earlier row decides again and its code is accepted.
C13_DecidedByLatestUnconsumed ==
  (resp.op = "verify-otp" /\ resp.email # Empty /\ resp.otp # "") =>
    /\ resp.rec = 0 => (\A j \in RowsOf(otps, resp.email) : otps[j].consumed = 1)
    /\ resp.rec # 0 =>
         /\ otps[resp.rec].email = resp.email
         /\ otps[resp.rec].consumed = (IF resp.status = 200 THEN 1 ELSE 0)
         /\ \A j \in RowsOf(otps, resp.email) : j > resp.rec => otps[j].consumed = 1
    /\ resp.status = 200 => (resp.rec # 0 /\ otps[resp.rec].code = resp.otp)

C13_Witness ==
  /\ resp.op = "verify-otp" /\ resp.error = "invalid_otp"
  /\ \E j \in RowsOf(otps, resp.email) :
       j < resp.rec /\ otps[j].consumed = 0 /\ otps[j].code = resp.otp

\* ---- C14: no step removes a grant: once (viewer, sharer) is granted it stays
\* granted; GetLocation by a viewer answers no_permission exactly when the pair has no
\* grant, so never again after a successful GrantPermission and always before one.
C14_GrantsAreSticky ==
  /\ [][ \A v \in {S, V} : \A s \in {S, V} : HasGrant(v, s) => HasGrant(v, s)' ]_vars
  /\ []( (resp.op = "grant" /\ resp.status = 200) => HasGrant(resp.email, resp.user.email) )
  /\ []( (resp.op = "get-location" /\ resp.user.role = "viewer") =>
           (resp.error = "no_permission" <=> ~HasGrant(resp.user.email, resp.email)) )

C14_Witness ==
  /\ resp.op = "get-location" /\ resp.user.role = "viewer"
  /\ resp.error # "no_permission"
  /\ Len(permissions) = 2
  /\ permissions[1].viewer_email = resp.user.email
  /\ permissions[1].sharer_email = resp.email

\* ---- C16: GetLocation reports the first check that fails, in the order token, role,
\* permission, existence: a viewer without a grant gets no_permission whether or not
\* the target has rows, and no_location_found goes only to a viewer holding a grant.
C16_FirstFailureWins ==
  resp.op = "get-location" =>
    IF resp.user = NoToken
      THEN resp.status = 401 /\ resp.error \in {"missing_token", "invalid_token"}
    ELSE IF resp.user.role # "viewer"
      THEN resp.status = 403 /\ resp.error = "only_viewers_can_fetch"
    ELSE IF ~HasGrant(resp.user.email, resp.email)
      THEN resp.status = 403 /\ resp.error = "no_permission"
    ELSE IF RowsOf(locations, resp.email) = {}
      THEN resp.status = 404 /\ resp.error = "no_location_found"
    ELSE resp.status = 200 /\ resp.error = ""

C16_Witness ==
  /\ resp.op = "get-location" /\ resp.error = "no_permission"
  /\ RowsOf(locations, resp.email) # {}
  /\ RowsOf(users, resp.email) # {}
  /\ \E i \in Ids(permissions) : permissions[i].sharer_email = resp.email

\* ---- C17: the locations table changes only by PostLocation appending one row for a
\* verified sharer token with numeric lat and lng, whatever their range; a non-sharer
\* gets only_sharers_can_post before the body is looked at, a sharer with a missing or
\* non-numeric field gets lat_and_lng_required, and both leave the table as it was.
NumericBody(b) == b.lat.t = "number" /\ b.lng.t = "number"

C17_PostLocationGuards ==
  /\ []( resp.op = "post-location" =>
           IF resp.user = NoToken
             THEN resp.status = 401
           ELSE IF resp.user.role # "sharer"
             THEN resp.status = 403 /\ resp.error = "only_sharers_can_post"
           ELSE IF ~NumericBody(resp.body)
             THEN resp.status = 400 /\ resp.error = "lat_and_lng_required"
           ELSE resp.status = 200 )
  /\ [][ IF resp'.op = "post-location" /\ resp'.status = 200
           THEN /\ resp'.user \in tokens /\ resp'.user.role = "sharer"
                /\ NumericBody(resp'.body)
                /\ locations' = Append(locations, [email |-> resp'.user.email,
                                                   lat |-> resp'.body.lat.v,
                                                   lng |-> resp'.body.lng.v,
                                                   updatedAt |-> now])
           ELSE locations' = locations
       ]_vars

C17_Witness ==
  /\ resp.op = "post-location" /\ resp.status = 200
  /\ locations[Len(locations)].lat > 90
  /\ locations[Len(locations)].lng > 180

\* ---- C15: every /request-otp that passed the format check gets its response,
\* invalid_email_domain when the lookup yields no records or rejects, otp_sent or
\* email_failed when the send settles; every other handler answers in the step it runs.
InFlight(i) == i \in Ids(reqs) /\ reqs[i].pc \in {"dns", "mail"}
Answered(i) == resp.op = "request-otp" /\ resp.req = i /\ resp.status \in {200, 400, 500}

C18_LaterRequestWins ==
  ( /\ VerifyOk
    /\ Cardinality(RowsOf(otps, resp.email)) = 2
    /\ \A j \in RowsOf(otps, resp.email) : otps[j].consumed = 1 => j = resp.rec ) =>
      \A j \in RowsOf(otps, resp.email) : meta[j].req <= meta[resp.rec].req

\* ---- C19: otps and locations only grow: rows are appended, never removed; a
\* locations row never changes; an otps row changes only in consumed, from 0 to 1.
C19_StoresOnlyGrow ==
  [][ /\ Len(otps') >= Len(otps)
      /\ \A i \in Ids(otps) :
           /\ otps'[i].email = otps[i].email
           /\ otps'[i].code = otps[i].code
           /\ otps'[i].expiresAt = otps[i].expiresAt
           /\ otps'[i].consumed >= otps[i].consumed
      /\ Len(locations') >= Len(locations)
      /\ \A i \in Ids(locations) : locations'[i] = locations[i]
    ]_vars

C19_Witness ==
  /\ Len(locations) = 2 /\ locations[1] # locations[2]
  /\ Len(otps) = 2 /\ otps[1].consumed = 1 /\ otps[2].consumed = 1

\* ---- C20: a VerifyOtp that fails leaves otps, users and tokens as they were; a
\* wrong code does not burn the row, whose own code still verifies until expiry.
C20_FailedVerifyChangesNothing ==
  /\ [][ (resp'.op = "verify-otp" /\ resp'.status # 200) =>
           (otps' = otps /\ users' = users /\ tokens' = tokens) ]_vars
  /\ []( (resp.op = "verify-otp" /\ resp.status # 200) =>
           /\ resp.error \in {"email_and_otp_required", "no_otp_requested",
                              "otp_expired", "invalid_otp"}
           /\ resp.token = NoToken )
  /\ [][ \A e \in {S} : \A c \in Codes :
           LET r == SelectOtp(otps, e)
           IN  ( /\ resp.op = "verify-otp" /\ resp.error = "invalid_otp" /\ resp.email = e
                 /\ resp'.op = "verify-otp" /\ resp'.email = e /\ resp'.otp = c
                 /\ r # 0 /\ c = otps[r].code /\ now <= otps[r].expiresAt ) =>
               (resp'.status = 200 /\ resp'.rec = resp.rec)
       ]_vars

C20_Witness ==
  /\ resp.op = "verify-otp" /\ resp.error = "invalid_otp"
  /\ otps[resp.rec].consumed = 0
  /\ now = otps[resp.rec].expiresAt
  /\ users = << >> /\ tokens = {}

\* ---- C21: every locations row carries the email, and every permissions row the
\* sharer_email, of a sharer token the server signed; a row is written only by a
\* successful PostLocation / GrantPermission under the email of the token presented,
\* and a request presenting a viewer token, or a token the server did not sign,
\* writes nothing.
SharerEmails == {t.email : t \in {u \in tokens : u.role = "sharer"}}
Written(table, table2) == {table2[i] : i \in Ids(table2)} \ {table[i] : i \in Ids(table)}

C21_WritesBoundToToken ==
  /\ []( /\ \A i \in Ids(locations) : locations[i].email \in SharerEmails
         /\ \A i \in Ids(permissions) : permissions[i].sharer_email \in SharerEmails )
  /\ [][ /\ \A row \in Written(locations, locations') :
              /\ resp'.op = "post-location" /\ resp'.status = 200
              /\ resp'.hdr[2].payload \in tokens
              /\ resp'.hdr[2].payload.role = "sharer"
              /\ row.email = resp'.hdr[2].payload.email
         /\ \A row \in Written(permissions, permissions') :
              /\ resp'.op = "grant" /\ resp'.status = 200
              /\ resp'.hdr[2].payload \in tokens
              /\ resp'.hdr[2].payload.role = "sharer"
              /\ row.sharer_email = resp'.hdr[2].payload.email
              /\ row.viewer_email = resp'.email
         /\ ( resp'.op \in {"post-location", "grant"} /\ Len(resp'.hdr) = 2
              /\ (resp'.hdr[2].payload.role = "viewer" \/ ~resp'.hdr[2].signed) ) =>
              (locations' = locations /\ permissions' = permissions)
       ]_vars

C21_Witness ==
  /\ resp.op = "grant" /\ resp.status = 200
  /\ resp.email # resp.user.email
  /\ permissions[Len(permissions)].sharer_email = resp.user.email
  /\ \E i \in Ids(locations) : locations[i].email = resp.user.email
  /\ \E i \in Ids(users) : users[i].email = resp.email /\ users[i].role = "viewer"

====
